---- MODULE Spec2Model ----
(***************************************************************************)
(* A model of pypage (src/pypage.py): the tag scanner                      *)
(* process_python_tags, the execution engine execPythonCode and the        *)
(* assembler pypage.                                                       *)
(*                                                                         *)
(* Text is modelled character by character: a string is a sequence of      *)
(* one-character strings, so that slicing, column counting and the regular *)
(* expressions of the scanner are computed as the code computes them.      *)
(***************************************************************************)
EXTENDS Integers, Sequences, FiniteSets, TLC

\* ------------------------------------------------------------------------
\* Bounds of the model
\* ------------------------------------------------------------------------

\* longest document (in lines) of the scanner-oriented specification
MaxLines == 3

\* longest document (in lines) of the engine-oriented specification
MaxRenderLines == 4

\* ------------------------------------------------------------------------
\* Strings
\* ------------------------------------------------------------------------

Min(a, b) == IF a <= b THEN a ELSE b

\* Python's s[a:b] (0-based, end exclusive, clamped), for 0 <= a
Slice(s, a, b) ==
  IF a >= Min(b, Len(s)) THEN << >> ELSE SubSeq(s, a + 1, Min(b, Len(s)))

\* Python's s[a:]
SliceFrom(s, a) == Slice(s, a, Len(s))

\* the characters matched by \s
Whitespace == {" ", "\t", "\n", "\r", "\f"}

\* does p occur in s at (1-based) position i
OccursAt(p, s, i) ==
  /\ i >= 1
  /\ i + Len(p) - 1 <= Len(s)
  /\ \A k \in 1..Len(p) : s[i + k - 1] = p[k]

\* re.compile(p).search(s) for a literal p: the 0-based start of the
\* leftmost occurrence, or -1 for None
Search(p, s) ==
  IF \E i \in 1..Len(s) : OccursAt(p, s, i)
  THEN (CHOOSE i \in 1..Len(s) :
          /\ OccursAt(p, s, i)
          /\ \A j \in 1..(i - 1) : ~OccursAt(p, s, j)) - 1
  ELSE -1

\* the length of the maximal run of whitespace that starts s
RECURSIVE LeadingWs(_)
LeadingWs(s) ==
  IF s = << >> \/ Head(s) \notin Whitespace THEN 0 ELSE 1 + LeadingWs(Tail(s))

\* re.compile(r"\s*%s\s*\n" % tag).match(line)
MatchDelimiter(tag, line) ==
  LET k == LeadingWs(line)
      e == k + Len(tag)
  IN  /\ OccursAt(tag, line, k + 1)
      /\ \E j \in (e + 1)..Len(line) :
            /\ line[j] = "\n"
            /\ \A w \in (e + 1)..(j - 1) : line[w] \in Whitespace

\* ''.join(ss)
RECURSIVE Concat(_)
Concat(ss) == IF ss = << >> THEN << >> ELSE Head(ss) \o Concat(Tail(ss))

\* sep.join(ss)
RECURSIVE Join(_, _)
Join(sep, ss) ==
  IF ss = << >> THEN << >>
  ELSE IF Len(ss) = 1 THEN ss[1]
  ELSE ss[1] \o sep \o Join(sep, Tail(ss))

\* s.split('\n')
RECURSIVE SplitNL(_)
SplitNL(s) ==
  LET p == Search(<<"\n">>, s)
  IN  IF p = -1 THEN <<s>>
      ELSE <<Slice(s, 0, p)>> \o SplitNL(SliceFrom(s, p + 1))

\* ' ' * k
RECURSIVE Spaces(_)
Spaces(k) == IF k <= 0 THEN << >> ELSE <<" ">> \o Spaces(k - 1)

\* "%d" % k, for k >= 0
RECURSIVE Decimal(_)
Decimal(k) ==
  LET d == <<"0", "1", "2", "3", "4", "5", "6", "7", "8", "9">>
  IN  IF k < 10 THEN <<d[k + 1]>> ELSE Decimal(k \div 10) \o <<d[(k % 10) + 1]>>

\* ------------------------------------------------------------------------
\* The delimiters of process_python_tags
\* ------------------------------------------------------------------------

multiline_delimiter_open == <<"<", "p", "y", "t", "h", "o", "n", ">">>
multiline_delimiter_close == <<"<", "/", "p", "y", "t", "h", "o", "n", ">">>
inline_delimiter_open == <<"<", "p", "y", ">">>
inline_delimiter_close == <<"<", "/", "p", "y", ">">>

re_delimiter_open(line) == MatchDelimiter(multiline_delimiter_open, line)
re_delimiter_close(line) == MatchDelimiter(multiline_delimiter_close, line)
re_short_open(line) == Search(inline_delimiter_open, line)
re_short_close(line) == Search(inline_delimiter_close, line)

find_indentation_level(opening_line) ==
  Search(multiline_delimiter_open, opening_line)

\* ------------------------------------------------------------------------
\* Statements of the embedded programs
\* ------------------------------------------------------------------------

NL == <<"\n">>
kwWrite == <<"w", "r", "i", "t", "e">>
\* write("
WriteStrOpen == kwWrite \o <<"(", "\"">>
\* ")
WriteStrClose == <<"\"", ")">>
\* write(x)
WriteX == kwWrite \o <<"(", "x", ")">>
\* write(i)
WriteI == kwWrite \o <<"(", "i", ")">>
\* x = "
AssignXOpen == <<"x", " ", "=", " ", "\"">>
\* f()
CallF == <<"f", "(", ")">>
\* def f():
DefFOpen == <<"d", "e", "f", " ", "f", "(", ")", ":", " ">>
\* for i in range(3):
ForHeader == <<"f", "o", "r", " ", "i", " ", "i", "n", " ",
               "r", "a", "n", "g", "e", "(", "3", ")", ":">>
\* __section__ =
SectionOpen == <<"_", "_", "s", "e", "c", "t", "i", "o", "n", "_", "_",
                 " ", "=", " ">>

\* a name that no statement has bound
Undef == <<"undefined">>

Letters == {"a", "b", "c", "d", "e", "f", "g", "h", "i", "j", "k", "l", "m",
            "n", "o", "p", "q", "r", "s", "t", "u", "v", "w", "x", "y", "z",
            "A", "B", "C", "D", "E", "F", "G", "H", "I", "J", "K", "L", "M",
            "N", "O", "P", "Q", "R", "S", "T", "U", "V", "W", "X", "Y", "Z"}

Digits == {"0", "1", "2", "3", "4", "5", "6", "7", "8", "9"}

Keywords == {<<"d", "e", "f">>, <<"f", "o", "r">>, <<"i", "n">>, <<"i", "f">>}

\* s without its trailing whitespace
RECURSIVE RStrip(_)
RStrip(s) ==
  IF s = << >> \/ s[Len(s)] \notin Whitespace THEN s
  ELSE RStrip(SubSeq(s, 1, Len(s) - 1))

\* the statement written on a physical line: no indentation, no trailing blanks
Stmt(l) == RStrip(SliceFrom(l, LeadingWs(l)))

IsBlank(l) == Stmt(l) = << >>

StartsWith(p, t) == OccursAt(p, t, 1)
EndsWith(p, t) == Len(t) >= Len(p) /\ OccursAt(p, t, Len(t) - Len(p) + 1)

\* the text of t between a prefix of length a and a suffix of length b
Between(t, a, b) == Slice(t, a, Len(t) - b)

\* the inside of a string literal: no quote, no line end, and no escape
\* but \n
RECURSIVE PlainChars(_)
PlainChars(t) ==
  IF t = << >> THEN TRUE
  ELSE IF Head(t) \in {"\"", "\n"} THEN FALSE
  ELSE IF Head(t) = "\\"
       THEN Len(t) >= 2 /\ t[2] = "n" /\ PlainChars(SliceFrom(t, 2))
  ELSE PlainChars(Tail(t))

\* the value of a string literal with the inside t
RECURSIVE Unescape(_)
Unescape(t) ==
  IF t = << >> THEN << >>
  ELSE IF Head(t) = "\\" THEN <<"\n">> \o Unescape(SliceFrom(t, 2))
  ELSE <<Head(t)>> \o Unescape(Tail(t))

IsName(t) ==
  /\ t # << >>
  /\ \A k \in 1..Len(t) : t[k] \in Letters
  /\ t \notin Keywords

IsDigits(t) == t # << >> /\ \A k \in 1..Len(t) : t[k] \in Digits

\* int(t) for a string of digits
RECURSIVE ParseDecimal(_)
ParseDecimal(t) ==
  LET v == CHOOSE n \in 0..9 : Decimal(n) = <<t[Len(t)]>>
  IN  IF Len(t) = 1 THEN v
      ELSE 10 * ParseDecimal(SubSeq(t, 1, Len(t) - 1)) + v

\* the statements the model gives a meaning to; every other text is "bad"
\* (the compiler rejects it)
LeafKind(t) ==
  IF t = << >> THEN "blank"
  ELSE IF StartsWith(SectionOpen, t)
          /\ IsDigits(SliceFrom(t, Len(SectionOpen))) THEN "section"
  ELSE IF /\ StartsWith(WriteStrOpen, t) /\ EndsWith(WriteStrClose, t)
          /\ Len(t) >= Len(WriteStrOpen) + Len(WriteStrClose)
          /\ PlainChars(Between(t, Len(WriteStrOpen), Len(WriteStrClose)))
       THEN "writestr"
  ELSE IF t = WriteX THEN "writex"
  ELSE IF t = WriteI THEN "writei"
  ELSE IF /\ StartsWith(AssignXOpen, t) /\ EndsWith(<<"\"">>, t)
          /\ Len(t) >= Len(AssignXOpen) + 1
          /\ PlainChars(Between(t, Len(AssignXOpen), 1))
       THEN "assign"
  ELSE IF t = CallF THEN "call"
  ELSE IF IsName(t) THEN "name"
  ELSE "bad"

\* the body of a one-line definition of f
DefBody(t) == Stmt(SliceFrom(t, Len(DefFOpen) - 1))

Kind(t) ==
  IF t = ForHeader THEN "for"
  ELSE IF StartsWith(SubSeq(DefFOpen, 1, Len(DefFOpen) - 1), t)
       THEN IF LeafKind(DefBody(t)) \notin {"blank", "bad"} THEN "def"
            ELSE "bad"
  ELSE LeafKind(t)

\* ------------------------------------------------------------------------
\* The module the engine executes: its globals and its statements
\* ------------------------------------------------------------------------

\* the globals of the transient module before the generated program runs:
\* __output__ = [""]*count, write defined, __section__ not yet bound (-1)
InitialGlobals(count) ==
  [ env     |-> [x |-> Undef, i |-> -1, f |-> Undef],
    output  |-> [k \in 1..count |-> << >>],
    section |-> -1 ]

Ok(g) == [g |-> g, err |-> "none"]
Raise(g, e) == [g |-> g, err |-> e]

\* a cursor directive that also starts a fresh scope (isolated sections)
SetSectionFresh(g, k) ==
  [g EXCEPT !.section = k, !.env = [x |-> Undef, i |-> -1, f |-> Undef]]

\* __section__ = k
SetSection(g, k) == [g EXCEPT !.section = k]

\* an isolated-scope variant: write targets section 0 whatever the cursor is
WriteToFirst(g, s) ==
  IF Len(g.output) = 0 THEN Raise(g, "IndexError")
  ELSE Ok([g EXCEPT !.output[1] = @ \o s])

\* def write(s): __output__[__section__] += str(s)
write(g, s) ==
  IF g.section = -1 THEN Raise(g, "NameError")
  ELSE IF g.section + 1 \notin 1..Len(g.output) THEN Raise(g, "IndexError")
  ELSE Ok([g EXCEPT !.output[g.section + 1] = @ \o s])

\* one statement that is neither a call nor a definition; local is TRUE when
\* the statement is the body of f, where an assignment binds a local name
RunLeaf(t, g, local) ==
  LET k == LeafKind(t)
  IN  CASE k = "blank"    -> Ok(g)
        [] k = "section"  ->
             IF local THEN Ok(g)
             ELSE Ok(SetSection(g,
                        ParseDecimal(SliceFrom(t, Len(SectionOpen)))))
        [] k = "writestr" ->
             write(g, Unescape(Between(t, Len(WriteStrOpen),
                                       Len(WriteStrClose))))
        [] k = "writex"   ->
             IF g.env.x = Undef THEN Raise(g, "NameError")
             ELSE write(g, g.env.x)
        [] k = "writei"   ->
             IF g.env.i = -1 THEN Raise(g, "NameError")
             ELSE write(g, Decimal(g.env.i))
        [] k = "assign"   ->
             IF local THEN Ok(g)
             ELSE Ok([g EXCEPT !.env.x =
                        Unescape(Between(t, Len(AssignXOpen), 1))])
        [] k = "name"     ->
             IF \/ t = kwWrite
                \/ t = <<"x">> /\ g.env.x # Undef
                \/ t = <<"i">> /\ g.env.i # -1
                \/ t = <<"f">> /\ g.env.f # Undef
             THEN Ok(g) ELSE Raise(g, "NameError")
        [] OTHER          -> Raise(g, "SyntaxError")

\* one statement on one line: a leaf, a call of f or a definition of f
RunSimple(t, g) ==
  CASE Kind(t) = "def"  -> Ok([g EXCEPT !.env.f = DefBody(t)])
    [] Kind(t) = "call" ->
         IF g.env.f = Undef THEN Raise(g, "NameError")
         ELSE IF LeafKind(g.env.f) = "call" THEN Raise(g, "RecursionError")
         ELSE RunLeaf(g.env.f, g, TRUE)
    [] OTHER            -> RunLeaf(t, g, FALSE)

\* the statements of a block, in order, up to the first that raises
RECURSIVE RunBlock(_, _)
RunBlock(stmts, g) ==
  IF stmts = << >> THEN Ok(g)
  ELSE LET r == RunSimple(Head(stmts), g)
       IN  IF r.err # "none" THEN r ELSE RunBlock(Tail(stmts), r.g)

\* for i in range(stop): body, from iteration i on
RECURSIVE RunFor(_, _, _, _)
RunFor(i, stop, body, g) ==
  IF i >= stop THEN Ok(g)
  ELSE LET r == RunBlock(body, [g EXCEPT !.env.i = i])
       IN  IF r.err # "none" THEN r ELSE RunFor(i + 1, stop, body, r.g)

\* the last line of the suite of the compound statement on line h of prog:
\* the lines after h that are blank or indented
RECURSIVE SuiteEnd(_, _)
SuiteEnd(prog, h) ==
  IF h + 1 <= Len(prog)
     /\ (IsBlank(prog[h + 1]) \/ LeadingWs(prog[h + 1]) > 0)
  THEN SuiteEnd(prog, h + 1) ELSE h

\* the statements of the suite of line h, blank lines dropped
SuiteLines(prog, h) ==
  SelectSeq(SubSeq(prog, h + 1, SuiteEnd(prog, h)), LAMBDA l : ~IsBlank(l))

Suite(prog, h) ==
  [k \in 1..Len(SuiteLines(prog, h)) |-> Stmt(SuiteLines(prog, h)[k])]

\* does the compiler accept the program from line h on
RECURSIVE Compiles(_, _)
Compiles(prog, h) ==
  IF h > Len(prog) THEN TRUE
  ELSE IF IsBlank(prog[h]) THEN Compiles(prog, h + 1)
  ELSE IF LeadingWs(prog[h]) > 0 THEN FALSE
  ELSE IF Kind(Stmt(prog[h])) = "for"
       THEN LET ls == SuiteLines(prog, h)
            IN  /\ ls # << >>
                /\ \A k \in 1..Len(ls) :
                      /\ LeadingWs(ls[k]) = LeadingWs(ls[1])
                      /\ Kind(Stmt(ls[k])) \notin {"bad", "for"}
                /\ Compiles(prog, SuiteEnd(prog, h) + 1)
  ELSE /\ Kind(Stmt(prog[h])) # "bad"
       /\ Compiles(prog, h + 1)

\* ------------------------------------------------------------------------
\* Documents
\* ------------------------------------------------------------------------

WriteStr(c) == WriteStrOpen \o c \o WriteStrClose
Inline(code) == inline_delimiter_open \o code \o inline_delimiter_close

\* a
LinePlain == <<"a">> \o NL
\* __<python>_          (opens at column 2, trailing blank)
LineOpen2 == Spaces(2) \o multiline_delimiter_open \o <<" ">> \o NL
\* </python>
LineClose == multiline_delimiter_close \o NL
\* b<py>write("c")</py>d
LineInline == <<"b">> \o Inline(WriteStr(<<"c">>)) \o <<"d">> \o NL
\* <py>write("c")</py><py>write("e")</py>
LineTwoPairs == Inline(WriteStr(<<"c">>)) \o Inline(WriteStr(<<"e">>)) \o NL
\* </py>e<py>
LineReversed ==
  inline_delimiter_close \o <<"e">> \o inline_delimiter_open \o NL
\* __g<py>              (an opening inline delimiter that is never closed)
LineHalfOpen == Spaces(2) \o <<"g">> \o inline_delimiter_open \o NL
\* Hello <py>write("World")</py>!      (no newline: a last line)
LineHello ==
  <<"H", "e", "l", "l", "o", " ">>
    \o Inline(WriteStr(<<"W", "o", "r", "l", "d">>)) \o <<"!">>

\* Hello World!         (no newline: a last line)
LineHelloWorld ==
  <<"H", "e", "l", "l", "o", " ", "W", "o", "r", "l", "d", "!">>

ScanVocabulary ==
  {LinePlain, LineOpen2, LineClose, LineInline, LineTwoPairs, LineReversed,
   LineHalfOpen, LineHello, LineHelloWorld}

\* ____<python>
LineOpen4 == Spaces(4) \o multiline_delimiter_open \o NL
\* ____for i in range(3):
LineFor == Spaces(4) \o ForHeader \o NL
\* ________write(i)
LineWriteI == Spaces(8) \o WriteI \o NL
\* ____</python>
LineClose4 == Spaces(4) \o multiline_delimiter_close \o NL
\* ____x = "A"
LineAssign == Spaces(4) \o AssignXOpen \o <<"A", "\"">> \o NL
\* t<py>write(x)</py>u
LineWriteX == <<"t">> \o Inline(WriteX) \o <<"u">> \o NL
\* <py>def f(): write("y")</py>
LineDef == Inline(DefFOpen \o WriteStr(<<"y">>)) \o NL
\* v<py>f()</py>w
LineCall == <<"v">> \o Inline(CallF) \o <<"w">> \o NL

\* ____write("p\nq")    (backslash n: the program writes two lines)
LineWriteTwo == Spaces(4) \o WriteStr(<<"p", "\\", "n", "q">>) \o NL

RenderVocabulary ==
  {LineOpen4, LineFor, LineWriteI, LineClose4, LineAssign, LineWriteX,
   LineDef, LineCall, LineWriteTwo}

\* f.readlines(): every line but the last ends with a newline
Documents(vocabulary, longest) ==
  { d \in UNION { [1..k -> vocabulary] : k \in 0..longest } :
      \A j \in 1..(Len(d) - 1) : d[j][Len(d[j])] = "\n" }

\* ------------------------------------------------------------------------
\* State
\* ------------------------------------------------------------------------

VARIABLES
  lines,     \* pypage: the lines read from input_file
  pc,        \* where the call of pypage is
  n,         \* process_python_tags: the number of lines consumed
  result,    \* the list of segments (process_python_tags, then pypage)
  collect,   \* process_python_tags: the accumulator
  id_level,  \* process_python_tags: the pending indentation level
  mode,      \* process_python_tags: "plain" or "code"
  scanned,   \* the list process_python_tags returned, before substitution
  prog,      \* execPythonCode: the lines of the generated program
  ip,        \* the line of prog that runs next
  m,         \* the globals of the transient module
  ri,        \* pypage: the index of the substitution loop
  outputIter,\* pypage: the number of outputs the iterator has yielded
  ret,       \* the text pypage returned, None before
  exc        \* the exception that left pypage, "none" if none

vars == <<lines, pc, n, result, collect, id_level, mode, scanned, prog, ip,
          m, ri, outputIter, ret, exc>>

scanVars == <<n, result, collect, id_level, mode>>
engineVars == <<prog, ip, m>>

None == <<"None">>

Literal(text) == [type |-> "str", text |-> text, id_level |-> 0]
PythonCode(code, level) ==
  [type |-> "PythonCode", text |-> code, id_level |-> level]

InitWith(docs) ==
  /\ lines \in docs
  /\ pc = "scan"
  /\ n = 0
  /\ result = << >>
  /\ collect = << >>
  /\ id_level = 0
  /\ mode = "plain"
  /\ scanned = << >>
  /\ prog = << >>
  /\ ip = 1
  /\ m = InitialGlobals(0)
  /\ ri = 1
  /\ outputIter = 0
  /\ ret = None
  /\ exc = "none"

Init == InitWith(Documents(ScanVocabulary, MaxLines))

InitRender == InitWith(Documents(RenderVocabulary, MaxRenderLines))

\* ------------------------------------------------------------------------
\* process_python_tags
\* ------------------------------------------------------------------------

Scanning == pc = "scan" /\ n < Len(lines)
line == lines[n + 1]
op == re_delimiter_open(line)
cl == re_delimiter_close(line)
ops == re_short_open(line)
cls == re_short_close(line)

\* if op:
ScanOpen ==
  /\ Scanning
  /\ op
  /\ result' = Append(result, Literal(collect))
  /\ collect' = << >>
  /\ id_level' = find_indentation_level(line)
  /\ mode' = "code"
  /\ n' = n + 1
  /\ UNCHANGED <<lines, pc, scanned, engineVars, ri, outputIter, ret, exc>>

\* elif cl:
ScanClose ==
  /\ Scanning
  /\ ~op /\ cl
  /\ result' = Append(result, PythonCode(collect, id_level))
  /\ collect' = NL
  /\ id_level' = 0
  /\ mode' = "plain"
  /\ n' = n + 1
  /\ UNCHANGED <<lines, pc, scanned, engineVars, ri, outputIter, ret, exc>>

pre_py == Slice(line, 0, ops)
in_py == Slice(line, ops + Len(inline_delimiter_open), cls)
post_py == SliceFrom(line, cls + Len(inline_delimiter_close))

\* elif ops and cls:
ScanInline ==
  /\ Scanning
  /\ ~op /\ ~cl
  /\ ops # -1 /\ cls # -1
  /\ result' = result \o <<Literal(collect \o pre_py), PythonCode(in_py, 0)>>
  /\ collect' = post_py
  /\ n' = n + 1
  /\ UNCHANGED <<lines, pc, id_level, mode, scanned, engineVars, ri,
                 outputIter, ret, exc>>

\* a variant of ScanPlain that overwrites the accumulator
ScanPlainOverwrite ==
  /\ Scanning
  /\ ~op /\ ~cl
  /\ ~(ops # -1 /\ cls # -1)
  /\ mode = "plain"
  /\ collect' = line
  /\ n' = n + 1
  /\ UNCHANGED <<lines, pc, result, id_level, mode, scanned, engineVars, ri,
                 outputIter, ret, exc>>

\* elif mode == mode_plain:
ScanPlain ==
  /\ Scanning
  /\ ~op /\ ~cl
  /\ ~(ops # -1 /\ cls # -1)
  /\ mode = "plain"
  /\ collect' = collect \o line
  /\ n' = n + 1
  /\ UNCHANGED <<lines, pc, result, id_level, mode, scanned, engineVars, ri,
                 outputIter, ret, exc>>

\* elif mode == mode_code:
ScanCode ==
  /\ Scanning
  /\ ~op /\ ~cl
  /\ ~(ops # -1 /\ cls # -1)
  /\ mode = "code"
  /\ collect' = collect \o (IF Len(line) > id_level
                            THEN SliceFrom(line, id_level) ELSE NL)
  /\ n' = n + 1
  /\ UNCHANGED <<lines, pc, result, id_level, mode, scanned, engineVars, ri,
                 outputIter, ret, exc>>

\* result.append(collect); return result
ScanEnd ==
  /\ pc = "scan"
  /\ n = Len(lines)
  /\ result' = Append(result, Literal(collect))
  /\ scanned' = result'
  /\ pc' = "engine"
  /\ UNCHANGED <<lines, n, collect, id_level, mode, engineVars, ri,
                 outputIter, ret, exc>>

\* ------------------------------------------------------------------------
\* execPythonCode
\* ------------------------------------------------------------------------

\* list(filter(lambda x: type(x) == PythonCode, result))
code_objects == SelectSeq(result, LAMBDA seg : seg.type = "PythonCode")

\* '\n'.join("__section__ = %d\n" % i + co.code for i, co in enumerate(cos))
ProgramText(cos) ==
  Join(NL, [k \in 1..Len(cos) |->
              SectionOpen \o Decimal(k - 1) \o NL \o cos[k].text])

\* a variant of Reindent that indents the buffer as a whole
ReindentWhole(o, level) == Spaces(level) \o o

\* ' ' * level before every line of o
Reindent(o, level) ==
  LET ss == SplitNL(o)
  IN  Join(NL, [k \in 1..Len(ss) |-> Spaces(level) \o ss[k]])

\* the effect of the statement that starts on line h of prog
Step(g, h) ==
  IF Kind(Stmt(prog[h])) = "for"
  THEN RunFor(0, 3, Suite(prog, h), g)
  ELSE RunSimple(Stmt(prog[h]), g)

\* the line after the statement that starts on line h of prog
NextLine(h) ==
  IF Kind(Stmt(prog[h])) = "for" THEN SuiteEnd(prog, h) + 1 ELSE h + 1

\* importCode: the generated program compiles; the module gets its globals
ImportCode ==
  /\ pc = "engine"
  /\ prog' = SplitNL(ProgramText(code_objects))
  /\ Compiles(prog', 1)
  /\ m' = InitialGlobals(Len(code_objects))
  /\ ip' = 1
  /\ pc' = "exec"
  /\ UNCHANGED <<lines, scanVars, scanned, ri, outputIter, ret, exc>>

\* importCode: exec rejects the generated program before running any of it
ImportCodeSyntaxError ==
  /\ pc = "engine"
  /\ prog' = SplitNL(ProgramText(code_objects))
  /\ ~Compiles(prog', 1)
  /\ pc' = "raised"
  /\ exc' = "SyntaxError"
  /\ UNCHANGED <<lines, scanVars, scanned, ip, m, ri, outputIter, ret>>

Running == pc = "exec" /\ ip <= Len(prog)

\* exec: the next statement of the program runs (a for statement with all
\* its iterations)
ExecStatement ==
  /\ Running
  /\ Step(m, ip).err = "none"
  /\ m' = Step(m, ip).g
  /\ ip' = NextLine(ip)
  /\ UNCHANGED <<lines, pc, scanVars, scanned, prog, ri, outputIter, ret,
                 exc>>

\* a variant of ExecRaise in which the engine swallows the exception
ExecRaiseSwallowed ==
  /\ Running
  /\ Step(m, ip).err # "none"
  /\ m' = Step(m, ip).g
  /\ ip' = Len(prog) + 1
  /\ UNCHANGED <<lines, pc, scanVars, scanned, prog, ri, outputIter, ret,
                 exc>>

\* exec: the next statement raises; nothing in execPythonCode or pypage
\* catches it
ExecRaise ==
  /\ Running
  /\ Step(m, ip).err # "none"
  /\ m' = Step(m, ip).g
  /\ pc' = "raised"
  /\ exc' = Step(m, ip).err
  /\ UNCHANGED <<lines, scanVars, scanned, prog, ip, ri, outputIter, ret>>

id_levels == [k \in 1..Len(code_objects) |-> code_objects[k].id_level]

\* apply indentation to output, the rest of execPythonCode.__init__;
\* then outputIter = iter(output)
ApplyIndentation ==
  /\ pc = "exec"
  /\ ip > Len(prog)
  /\ m' = [m EXCEPT !.output =
             [k \in 1..Len(m.output) |-> Reindent(m.output[k], id_levels[k])]]
  /\ ri' = 1
  /\ outputIter' = 0
  /\ pc' = "assemble"
  /\ UNCHANGED <<lines, scanVars, scanned, prog, ip, ret, exc>>

\* ------------------------------------------------------------------------
\* pypage
\* ------------------------------------------------------------------------

Assembling == pc = "assemble" /\ ri <= Len(result)

\* a variant of SubstituteCode whose iterator does not advance
SubstituteCodeStale ==
  /\ Assembling
  /\ result[ri].type = "PythonCode"
  /\ outputIter < Len(m.output)
  /\ result' = [result EXCEPT ![ri] = Literal(m.output[outputIter + 1])]
  /\ outputIter' = outputIter
  /\ ri' = ri + 1
  /\ UNCHANGED <<lines, pc, n, collect, id_level, mode, scanned, engineVars,
                 ret, exc>>

\* if type(result[ri]) == PythonCode: result[ri] = next(outputIter)
SubstituteCode ==
  /\ Assembling
  /\ result[ri].type = "PythonCode"
  /\ outputIter < Len(m.output)
  /\ result' = [result EXCEPT ![ri] = Literal(m.output[outputIter + 1])]
  /\ outputIter' = outputIter + 1
  /\ ri' = ri + 1
  /\ UNCHANGED <<lines, pc, n, collect, id_level, mode, scanned, engineVars,
                 ret, exc>>

\* a plain string stays as it is
KeepLiteral ==
  /\ Assembling
  /\ result[ri].type = "str"
  /\ ri' = ri + 1
  /\ UNCHANGED <<lines, pc, scanVars, scanned, engineVars, outputIter, ret,
                 exc>>

\* return ''.join(result)
Return ==
  /\ pc = "assemble"
  /\ ri > Len(result)
  /\ ret' = Concat([k \in 1..Len(result) |-> result[k].text])
  /\ pc' = "done"
  /\ UNCHANGED <<lines, scanVars, scanned, engineVars, ri, outputIter, exc>>

Next ==
  \/ ScanOpen
  \/ ScanClose
  \/ ScanInline
  \/ ScanPlain
  \/ ScanCode
  \/ ScanEnd
  \/ ImportCode
  \/ ImportCodeSyntaxError
  \/ ExecStatement
  \/ ExecRaise
  \/ ApplyIndentation
  \/ SubstituteCode
  \/ KeepLiteral
  \/ Return

\* documents of tag-shaped lines: the scanner's cases
Spec == Init /\ [][Next]_vars

\* documents of small programs: the engine's cases
SpecRender == InitRender /\ [][Next]_vars

\* ------------------------------------------------------------------------
\* Properties
\* ------------------------------------------------------------------------

IsCode(seg) == seg.type = "PythonCode"

\* the Code segments the scanner produced, in scanning order
ScannedCode == SelectSeq(scanned, IsCode)

IsPrefix(a, b) == Len(a) <= Len(b) /\ SubSeq(b, 1, Len(a)) = a

BlockOpenLine(l) == re_delimiter_open(l)
BlockCloseLine(l) == re_delimiter_close(l)
InlineLine(l) == re_short_open(l) # -1 /\ re_short_close(l) # -1

\* no line of the document is a block-open line, a block-close line or a
\* line with both inline delimiters
TagFree(d) ==
  \A k \in 1..Len(d) :
    ~BlockOpenLine(d[k]) /\ ~BlockCloseLine(d[k]) /\ ~InlineLine(d[k])

\* C1: a document without tags renders as the concatenation of its lines,
\* byte for byte (so a tag-free render result renders as itself)
C1_Identity ==
  TagFree(lines) =>
    /\ pc # "raised"
    /\ pc = "done" => ret = Concat(lines)

\* a tag-free document of several lines that ends with the render result
\* Hello World! has been rendered
C1_Witness ==
  /\ pc = "done"
  /\ TagFree(lines)
  /\ Len(lines) >= 2
  /\ lines[Len(lines)] = LineHelloWorld
  /\ \E k \in 1..Len(lines) : lines[k] = LineHalfOpen

\* C2: on every line with both inline delimiters the scanner emits a Literal
\* that ends with the text before <py>, then a Code segment of level 0, and
\* goes on from the text after </py>, and the three pieces with the two
\* delimiters between them make up the line; Hello <py>write("World")</py>!
\* renders as Hello World!
C2_InlineSplit ==
  /\ [][ (Scanning /\ ~op /\ ~cl /\ InlineLine(line)) =>
           LET lit  == result'[Len(result) + 1]
               code == result'[Len(result) + 2]
               pre  == SliceFrom(lit.text, Len(collect))
           IN  /\ Len(result') = Len(result) + 2
               /\ lit.type = "str"
               /\ lit.text = collect \o pre
               /\ code.type = "PythonCode"
               /\ code.id_level = 0
               /\ pre \o inline_delimiter_open \o code.text
                      \o inline_delimiter_close \o collect' = line ]_vars
  /\ [](lines = <<LineHello>> =>
          /\ pc # "raised"
          /\ pc = "done" => ret = LineHelloWorld)

\* the block of the example: opened at column 4, a loop that writes 0, 1, 2
BlockDocument == <<LineOpen4, LineFor, LineWriteI, LineClose4>>

\* the Code segments' indentation levels, in scanning order
ScannedLevels == [k \in 1..Len(ScannedCode) |-> ScannedCode[k].id_level]

\* C3 as stated: the block renders as the three lines 0, 1, 2, each after
\* 4 spaces, joined by newlines
C3_ThreeLines ==
  (lines = BlockDocument /\ pc = "done") =>
    IsPrefix(Spaces(4) \o <<"0">> \o NL \o Spaces(4) \o <<"1">> \o NL
               \o Spaces(4) \o <<"2">>, ret)

\* C3 amended: write adds no newline, so the block renders as the one line
\* 012 after 4 spaces, and a newline stands for the closing line; in every
\* render each line of each finished buffer starts with as many spaces as
\* the indentation level of its segment
C3_BlockSubstitution ==
  /\ lines = BlockDocument =>
       /\ pc # "raised"
       /\ pc = "done" => ret = Spaces(4) \o <<"0", "1", "2">> \o NL
  /\ pc \in {"assemble", "done"} =>
       \A k \in 1..Len(m.output) :
         \A j \in 1..Len(SplitNL(m.output[k])) :
           IsPrefix(Spaces(ScannedLevels[k]), SplitNL(m.output[k])[j])

\* the example block has been rendered
C3_Witness == lines = BlockDocument /\ pc = "done"

\* a block that binds x, then an inline tag that writes x
ScopeDocument == <<LineOpen4, LineAssign, LineClose4, LineWriteX>>

StatementKind == Kind(Stmt(prog[ip]))

\* C4: the sections share one scope, in order: a cursor directive leaves
\* every binding as it is, a binding changes only where a statement rebinds
\* it, and x = "A" in a block is written as A by a later inline tag, at the
\* inline tag's position
C4_SharedScope ==
  /\ [][ Running =>
           /\ StatementKind = "section" => m'.env = m.env
           /\ m'.env.x # m.env.x => StatementKind \in {"assign", "for"}
           /\ m'.env.f # m.env.f => StatementKind \in {"def", "for"} ]_vars
  /\ [](lines = ScopeDocument =>
          /\ pc # "raised"
          /\ pc = "done" =>
               ret = Spaces(4) \o NL \o <<"t", "A", "u">> \o NL)

\* the document that binds x in one section and writes it in the next has
\* been rendered
C4_Witness == lines = ScopeDocument /\ pc = "done" /\ m.section = 1

\* the segments in order, each Code segment replaced by the next buffer
RECURSIVE Splice(_, _, _)
Splice(segs, outs, k) ==
  IF segs = << >> THEN << >>
  ELSE IF IsCode(Head(segs))
       THEN outs[k] \o Splice(Tail(segs), outs, k + 1)
       ELSE Head(segs).text \o Splice(Tail(segs), outs, k)

\* C5: the rendered text is the scanned segments in scanning order, every
\* Literal unchanged and the k-th Code segment replaced by the k-th
\* re-indented buffer
C5_OrderPreserved == pc = "done" => ret = Splice(scanned, m.output, 1)

\* three Code segments with literal text between them, the later two with
\* output, have been rendered
C5_Witness ==
  /\ pc = "done"
  /\ Len(ScannedCode) >= 3
  /\ m.output[1] = << >> /\ m.output[2] # << >> /\ m.output[3] # << >>
  /\ \A k \in 2..Len(scanned) : ~IsCode(scanned[k]) => scanned[k].text # << >>

\* C6: a program that raises makes pypage raise the same exception and
\* return nothing, whatever the earlier sections wrote
C6_FatalFailure ==
  /\ [][ /\ (Running /\ Step(m, ip).err # "none") =>
              (pc' = "raised" /\ exc' = Step(m, ip).err /\ ret' = None)
         /\ (pc = "engine"
               /\ ~Compiles(SplitNL(ProgramText(code_objects)), 1)) =>
              (pc' = "raised" /\ exc' = "SyntaxError" /\ ret' = None) ]_vars
  /\ [](pc = "raised" => exc # "none" /\ ret = None)
  /\ [](pc = "done" => exc = "none")

\* a later section raised after an earlier one had written output
C6_Witness ==
  /\ pc = "raised"
  /\ exc = "NameError"
  /\ m.section >= 1
  /\ \E k \in 1..m.section : m.output[k] # << >>

\* C7: a document whose scan yields no Code segment renders as itself
C7_NoCodeIdentity ==
  (pc = "done" /\ ScannedCode = << >>) => ret = Concat(lines)

\* the second pair of the line with two inline pairs
SecondPair == Inline(WriteStr(<<"e">>))

\* C8: the second inline pair of a line is never in a Code segment
C8_SecondPairLiteral ==
  \A k \in 1..Len(result) :
    IsCode(result[k]) => Search(SecondPair, result[k].text) = -1

\* the values of the cursor directives of the program, in order
SectionValues ==
  LET ds == SelectSeq(prog, LAMBDA l : LeafKind(Stmt(l)) = "section")
  IN  [k \in 1..Len(ds) |->
         ParseDecimal(SliceFrom(Stmt(ds[k]), Len(SectionOpen)))]

\* C9: with N Code segments the directives are 0..N-1 in order, there are N
\* buffers, the cursor goes up by one at a time and has reached N-1 when the
\* program ends, and a statement only appends, and only to the buffer under
\* the cursor
C9_CursorAndBuffers ==
  /\ [](pc \in {"exec", "assemble", "done"} =>
          /\ Len(m.output) = Len(ScannedCode)
          /\ SectionValues = [k \in 1..Len(ScannedCode) |-> k - 1])
  /\ []((pc = "exec" /\ ip > Len(prog)) => m.section = Len(ScannedCode) - 1)
  /\ [][ /\ m'.section \in {m.section, m.section + 1}
         /\ Running =>
              \A k \in 1..Len(m.output) :
                IF k = m'.section + 1
                THEN IsPrefix(m.output[k], m'.output[k])
                ELSE m'.output[k] = m.output[k] ]_vars

\* f, defined in section 0, has been called in section 1 and has written to
\* buffer 1 only
C9_Witness ==
  /\ pc = "exec"
  /\ m.section = 1
  /\ m.env.f # Undef
  /\ Kind(Stmt(prog[2])) = "def"
  /\ m.output[1] = << >>
  /\ m.output[2] # << >>

\* C10: a block-close puts no text that was accumulated in plain mode into
\* a Code segment
C10_OnlyTaggedText ==
  [][ (Scanning /\ ~op /\ cl /\ mode = "plain") =>
        result'[Len(result')].text \in {<< >>, NL} ]_vars

====
